---------------------------- MODULE Spec2Model ----------------------------
(***************************************************************************)
(* Model of src/parser/literal.rs: the OData primitive-literal parsers     *)
(* written with nom combinators.  Text is a sequence of one-character      *)
(* strings.  A parser maps an input to a nom IResult, modelled as a record *)
(*   [kind |-> "Ok", rest |-> remaining input, val |-> value]              *)
(*   [kind |-> "Error"]    nom::Err::Error, recoverable by alt and opt     *)
(*   [kind |-> "Failure"]  nom::Err::Failure, produced by cut, which alt   *)
(*                         and opt hand on to the caller unchanged         *)
(* The error position and ErrorKind carried by nom errors are not          *)
(* modelled.                                                               *)
(***************************************************************************)
EXTENDS Integers, Sequences, FiniteSets, TLC

VARIABLES inp, op, res

vars == <<inp, op, res>>

----------------------------------------------------------------------------
(* Characters and character classes                                        *)

DigitChars == <<"0", "1", "2", "3", "4", "5", "6", "7", "8", "9">>

UpperChars == <<"A", "B", "C", "D", "E", "F", "G", "H", "I", "J", "K", "L", "M",
                "N", "O", "P", "Q", "R", "S", "T", "U", "V", "W", "X", "Y", "Z">>

LowerChars == <<"a", "b", "c", "d", "e", "f", "g", "h", "i", "j", "k", "l", "m",
                "n", "o", "p", "q", "r", "s", "t", "u", "v", "w", "x", "y", "z">>

Range(f) == {f[i] : i \in DOMAIN f}

IndexOf(seq, c) == CHOOSE i \in DOMAIN seq : seq[i] = c

\* char::is_digit(10)
is_digit(c) == c \in Range(DigitChars)

\* A hex test that forgets the upper-case digits.
is_hex_digit_LowerOnly(c) ==
    \/ c \in Range(DigitChars)
    \/ c \in {"a", "b", "c", "d", "e", "f"}

\* char::is_digit(16)
is_hex_digit(c) ==
    \/ c \in Range(DigitChars)
    \/ c \in {"a", "b", "c", "d", "e", "f"}
    \/ c \in {"A", "B", "C", "D", "E", "F"}

\* is_ascii_alphanumeric, '-', '_' or '='
is_base64url_char(c) ==
    \/ c \in Range(DigitChars) \cup Range(UpperChars) \cup Range(LowerChars)
    \/ c = "-"
    \/ c = "_"
    \/ c = "="

DigitSet == {c \in Range(DigitChars) : is_digit(c)}

HexSet == {c \in Range(DigitChars) \cup Range(UpperChars) \cup Range(LowerChars) :
             is_hex_digit(c)}

Base64UrlSet == {c \in Range(DigitChars) \cup Range(UpperChars) \cup Range(LowerChars)
                        \cup {"-", "_", "="} : is_base64url_char(c)}

\* The decimal value of a digit character (char::to_digit(10)).
DigitVal(c) == IndexOf(DigitChars, c) - 1

\* ASCII lower-casing, as tag_no_case compares.
ToLower(c) == IF c \in Range(UpperChars) THEN LowerChars[IndexOf(UpperChars, c)] ELSE c

----------------------------------------------------------------------------
(* Slices and results                                                      *)

Take(s, k) == SubSeq(s, 1, k)

Drop(s, k) == SubSeq(s, k + 1, Len(s))

Ok(rest, val) == [kind |-> "Ok", rest |-> rest, val |-> val]

Error == [kind |-> "Error"]

Failure == [kind |-> "Failure"]

IsOk(r) == r.kind = "Ok"

\* Length of the longest prefix of s whose characters all lie in S
\* (take_while, and digit1 when the result must be positive).
RECURSIVE SpanLen(_, _)
SpanLen(s, S) ==
    IF s = <<>> \/ Head(s) \notin S THEN 0 ELSE 1 + SpanLen(Tail(s), S)

\* one_of(S) under opt: 1 when the first character is in S, else 0.
OptOneOf(s, S) == IF s # <<>> /\ Head(s) \in S THEN 1 ELSE 0

\* tag(t): s starts with t.
Tag(s, t) == Len(s) >= Len(t) /\ Take(s, Len(t)) = t

\* tag_no_case(t): s starts with t up to ASCII case.
TagNoCase(s, t) ==
    /\ Len(s) >= Len(t)
    /\ \A i \in 1..Len(t) : ToLower(s[i]) = ToLower(t[i])

\* take_while_m_n(n, n, pred): exactly n leading characters in S.
TakeExactly(s, n, S) == Len(s) >= n /\ \A i \in 1..n : s[i] \in S

\* char(c)
CharAt(s, i, c) == Len(s) >= i /\ s[i] = c


----------------------------------------------------------------------------
(* parse_float                                                             *)

DigitsOf(s) == [i \in 1..Len(s) |-> DigitVal(s[i])]

RECURSIVE StripLeadingZeros(_)
StripLeadingZeros(ds) ==
    IF ds # <<>> /\ Head(ds) = 0 THEN StripLeadingZeros(Tail(ds)) ELSE ds

RECURSIVE TrailingZeros(_)
TrailingZeros(ds) ==
    IF ds # <<>> /\ ds[Len(ds)] = 0 THEN 1 + TrailingZeros(Take(ds, Len(ds) - 1)) ELSE 0

\* Value of a decimal exponent digit run, saturated far beyond the f64 range.
RECURSIVE ExpMagnitude(_, _)
ExpMagnitude(ds, acc) ==
    IF ds = <<>> THEN acc
    ELSE ExpMagnitude(Tail(ds), IF acc * 10 + Head(ds) > 100000 THEN 100000
                                ELSE acc * 10 + Head(ds))

\* <f64 as FromStr> on a text the float grammar matched: sign, integer digits,
\* fraction digits, signed exponent.  The f64 is represented by the decimal it
\* was read from, normalised (mantissa without leading or trailing zeros and a
\* power of ten), which identifies the f64 for mantissas of at most 15 digits;
\* magnitudes of 1e309 and more read as infinity, those below 1e-324 as zero.
F64FromParts(neg, int, frac, expNeg, expDigits) ==
    LET all   == StripLeadingZeros(DigitsOf(int) \o DigitsOf(frac))
        tz    == TrailingZeros(all)
        mant  == Take(all, Len(all) - tz)
        e     == ExpMagnitude(DigitsOf(expDigits), 0)
        exp10 == (IF expNeg THEN 0 - e ELSE e) - Len(frac) + tz
        order == Len(mant) + exp10
    IN  IF mant = <<>> \/ order < 0 - 323 THEN [cls |-> "zero", neg |-> neg]
        ELSE IF order > 309 THEN [cls |-> "inf", neg |-> neg]
        ELSE [cls |-> "finite", neg |-> neg, mant |-> mant, exp |-> exp10]

\* The lexical pass of parse_float: the tuple under verify and recognize.
\* Returns the shape matched, or the nom error that ends it.
FloatShape(i) ==
    LET s    == OptOneOf(i, {"+", "-"})
        d    == SpanLen(Drop(i, s), DigitSet)
        p2   == s + d
        dot  == CharAt(i, p2 + 1, ".")
        fl   == IF dot THEN SpanLen(Drop(i, p2 + 1), DigitSet) ELSE 0
        p3   == IF dot THEN p2 + 1 + fl ELSE p2
        e    == Len(i) > p3 /\ i[p3 + 1] \in {"e", "E"}
        es   == IF e THEN OptOneOf(Drop(i, p3 + 1), {"+", "-"}) ELSE 0
        el   == IF e THEN SpanLen(Drop(i, p3 + 1 + es), DigitSet) ELSE 0
        p4   == IF e THEN p3 + 1 + es + el ELSE p3
    IN  IF d = 0 THEN [kind |-> "Error"]
        \* cut(digit1): an exponent marker without digits is unrecoverable
        ELSE IF e /\ el = 0 THEN [kind |-> "Failure"]
        \* verify: at least a fraction or an exponent
        ELSE IF ~dot /\ ~e THEN [kind |-> "Error"]
        ELSE [kind |-> "Ok", len |-> p4,
              neg |-> s = 1 /\ i[1] = "-",
              int |-> SubSeq(i, s + 1, p2),
              frac |-> IF dot THEN SubSeq(i, p2 + 2, p3) ELSE <<>>,
              expNeg |-> e /\ es = 1 /\ i[p3 + 2] = "-",
              expDigits |-> IF e THEN SubSeq(i, p3 + 2 + es, p4) ELSE <<>>]

parse_float(i) ==
    LET m == FloatShape(i)
    IN  IF m.kind = "Ok"
        THEN Ok(Drop(i, m.len), F64FromParts(m.neg, m.int, m.frac, m.expNeg, m.expDigits))
        ELSE m

----------------------------------------------------------------------------
(* parse_string                                                            *)

Quote == "'"

\* is_not("'"): the length of the leading run of characters other than c.
RECURSIVE IsNotLen(_, _)
IsNotLen(s, c) == IF s = <<>> \/ Head(s) = c THEN 0 ELSE 1 + IsNotLen(Tail(s), c)

\* A many0 loop that keeps a doubled quote as two quotes.
RECURSIVE StringParts_KeepEscape(_, _)
StringParts_KeepEscape(s, acc) ==
    LET n == IsNotLen(s, Quote)
    IN  IF n > 0 THEN StringParts_KeepEscape(Drop(s, n), acc \o Take(s, n))
        ELSE IF Tag(s, <<Quote, Quote>>)
             THEN StringParts_KeepEscape(Drop(s, 2), acc \o <<Quote, Quote>>)
        ELSE [rest |-> s, val |-> acc]

\* many0(alt((is_not("'"), value("'", tag("''"))))) followed by join(""):
\* the unconsumed input and the collected text.
RECURSIVE StringParts(_, _)
StringParts(s, acc) ==
    LET n == IsNotLen(s, Quote)
    IN  IF n > 0 THEN StringParts(Drop(s, n), acc \o Take(s, n))
        ELSE IF Tag(s, <<Quote, Quote>>) THEN StringParts(Drop(s, 2), Append(acc, Quote))
        ELSE [rest |-> s, val |-> acc]

parse_string(i) ==
    IF ~CharAt(i, 1, Quote) THEN Error
    ELSE LET m == StringParts(Drop(i, 1), <<>>)
         IN  IF CharAt(m.rest, 1, Quote) THEN Ok(Drop(m.rest, 1), m.val) ELSE Error

----------------------------------------------------------------------------
(* parse_guid                                                              *)

\* The group lengths of the tuple, in order.
GuidGroups == <<8, 4, 4, 4, 12>>

\* The tuple of take_while_m_n and char('-') parsers from position 1:
\* the number of characters matched, or 0 when a part fails.
RECURSIVE GuidLen(_, _)
GuidLen(s, g) ==
    IF ~TakeExactly(s, GuidGroups[g], HexSet) THEN 0
    ELSE IF g = Len(GuidGroups) THEN GuidGroups[g]
    ELSE IF ~CharAt(s, GuidGroups[g] + 1, "-") THEN 0
    ELSE LET n == GuidLen(Drop(s, GuidGroups[g] + 1), g + 1)
         IN  IF n = 0 THEN 0 ELSE GuidGroups[g] + 1 + n

parse_guid(i) ==
    LET n == GuidLen(i, 1)
    IN  IF n = 0 THEN Error ELSE Ok(Drop(i, n), Take(i, n))

----------------------------------------------------------------------------
(* parse_year, parse_month, parse_day, parse_date                          *)

\* str::parse of an unsigned digit run that is known to fit (at most 4 digits).
RECURSIVE DecimalValue(_, _)
DecimalValue(s, acc) ==
    IF s = <<>> THEN acc ELSE DecimalValue(Tail(s), acc * 10 + DigitVal(Head(s)))

parse_year(i) ==
    LET s == OptOneOf(i, {"-"})
    IN  IF ~TakeExactly(Drop(i, s), 4, DigitSet) THEN Error
        ELSE LET v == DecimalValue(SubSeq(i, s + 1, s + 4), 0)
             IN  Ok(Drop(i, s + 4), IF s = 1 THEN 0 - v ELSE v)

\* Month::try_from(u8): 1 to 12 name a month (January = 1).
MonthTryFrom(n) == IF n >= 1 /\ n <= 12 THEN [ok |-> TRUE, month |-> n] ELSE [ok |-> FALSE]

parse_month(i) ==
    IF ~(OptOneOf(i, {"0", "1"}) = 1 /\ TakeExactly(Drop(i, 1), 1, DigitSet)) THEN Error
    ELSE LET m == MonthTryFrom(DecimalValue(Take(i, 2), 0))
         IN  IF m.ok THEN Ok(Drop(i, 2), m.month) ELSE Error

parse_day(i) ==
    IF ~(OptOneOf(i, {"0", "1", "2", "3"}) = 1 /\ TakeExactly(Drop(i, 1), 1, DigitSet))
    THEN Error
    ELSE Ok(Drop(i, 2), DecimalValue(Take(i, 2), 0))

\* The Julian rule: every fourth year.
is_leap_year_Julian(year) == year % 4 = 0

\* time::util::is_leap_year
is_leap_year(year) == year % 4 = 0 /\ (year % 25 # 0 \/ year % 16 = 0)

\* time::util::days_in_year_month
days_in_year_month(year, month) ==
    IF month \in {1, 3, 5, 7, 8, 10, 12} THEN 31
    ELSE IF month \in {4, 6, 9, 11} THEN 30
    ELSE IF is_leap_year(year) THEN 29 ELSE 28

\* Days of the year before the first of `month`.
RECURSIVE DaysBeforeMonth(_, _)
DaysBeforeMonth(year, month) ==
    IF month = 1 THEN 0
    ELSE DaysBeforeMonth(year, month - 1) + days_in_year_month(year, month - 1)

\* A construction that checks the day against 31 only, whatever the month.
from_calendar_date_AnyMonth31(year, month, day) ==
    IF year < 0 - 9999 \/ year > 9999 THEN [ok |-> FALSE]
    ELSE IF day < 1 \/ day > 31 THEN [ok |-> FALSE]
    ELSE [ok |-> TRUE,
          date |-> [year |-> year, ordinal |-> DaysBeforeMonth(year, month) + day]]

\* Date::from_calendar_date: a Date is a year and the ordinal day in it; the
\* year must lie in -9999..9999 and the day in the month.
from_calendar_date(year, month, day) ==
    IF year < 0 - 9999 \/ year > 9999 THEN [ok |-> FALSE]
    ELSE IF day < 1 \/ day > days_in_year_month(year, month) THEN [ok |-> FALSE]
    ELSE [ok |-> TRUE,
          date |-> [year |-> year, ordinal |-> DaysBeforeMonth(year, month) + day]]

parse_date(i) ==
    LET y == parse_year(i)
    IN  IF ~IsOk(y) \/ ~CharAt(y.rest, 1, "-") THEN Error
        ELSE LET m == parse_month(Drop(y.rest, 1))
             IN  IF ~IsOk(m) \/ ~CharAt(m.rest, 1, "-") THEN Error
                 ELSE LET d == parse_day(Drop(m.rest, 1))
                      IN  IF ~IsOk(d) THEN Error
                          ELSE LET c == from_calendar_date(y.val, m.val, d.val)
                               IN  IF c.ok THEN Ok(d.rest, c.date) ELSE Error

----------------------------------------------------------------------------
(* nom::character::complete::i64                                           *)
(* An i64 is a sign and a magnitude, the magnitude a decimal digit         *)
(* sequence without leading zeros (empty for 0).  The checked operations   *)
(* overflow exactly outside -2^63 .. 2^63 - 1.                             *)

\* 2^63 - 1 = i64::MAX
I64MaxMag == <<9, 2, 2, 3, 3, 7, 2, 0, 3, 6, 8, 5, 4, 7, 7, 5, 8, 0, 7>>

\* 2^63 = -i64::MIN
I64MinMag == <<9, 2, 2, 3, 3, 7, 2, 0, 3, 6, 8, 5, 4, 7, 7, 5, 8, 0, 8>>

\* a <= b for magnitudes without leading zeros
MagLeq(a, b) ==
    \/ Len(a) < Len(b)
    \/ /\ Len(a) = Len(b)
       /\ \/ a = b
          \/ \E k \in 1..Len(a) : a[k] < b[k] /\ \A j \in 1..(k - 1) : a[j] = b[j]

I64Zero == [neg |-> FALSE, mag |-> <<>>]

I64InRange(neg, mag) == MagLeq(mag, IF neg THEN I64MinMag ELSE I64MaxMag)

\* i64::checked_mul(10)
I64CheckedMul10(v) ==
    LET mag == IF v.mag = <<>> THEN <<>> ELSE Append(v.mag, 0)
    IN  IF I64InRange(v.neg, mag) THEN [ok |-> TRUE, v |-> [neg |-> v.neg, mag |-> mag]]
        ELSE [ok |-> FALSE]

\* Magnitude plus one digit, for a magnitude that is 0 or ends in 0.
MagAddDigit(mag, d) ==
    IF d = 0 THEN mag
    ELSE IF mag = <<>> THEN <<d>>
    ELSE [mag EXCEPT ![Len(mag)] = d]

\* i64::saturating_add in place of checked_add: never reports overflow.
I64SaturatingAdd(v, d) ==
    LET mag == MagAddDigit(v.mag, d)
    IN  [ok |-> TRUE,
         v |-> [neg |-> FALSE, mag |-> IF I64InRange(FALSE, mag) THEN mag ELSE I64MaxMag]]

\* i64::checked_add(d) on a value >= 0 that is a multiple of 10
I64CheckedAdd(v, d) ==
    LET mag == MagAddDigit(v.mag, d)
    IN  IF I64InRange(FALSE, mag) THEN [ok |-> TRUE, v |-> [neg |-> FALSE, mag |-> mag]]
        ELSE [ok |-> FALSE]

\* A subtraction checked against the positive limit, as when the magnitude is
\* accumulated first and negated afterwards.
I64CheckedSub_PositiveLimit(v, d) ==
    LET mag == MagAddDigit(v.mag, d)
    IN  IF I64InRange(FALSE, mag) THEN [ok |-> TRUE, v |-> [neg |-> mag # <<>>, mag |-> mag]]
        ELSE [ok |-> FALSE]

\* i64::checked_sub(d) on a value <= 0 that is a multiple of 10
I64CheckedSub(v, d) ==
    LET mag == MagAddDigit(v.mag, d)
    IN  IF I64InRange(TRUE, mag) THEN [ok |-> TRUE, v |-> [neg |-> mag # <<>>, mag |-> mag]]
        ELSE [ok |-> FALSE]

\* The digit loop: pos characters are consumed, value is the number so far.
RECURSIVE I64Loop(_, _, _, _)
I64Loop(s, pos, positive, value) ==
    IF Len(s) = pos THEN Ok(<<>>, value)
    ELSE IF ~is_digit(s[pos + 1])
         THEN IF pos = 0 THEN Error ELSE Ok(Drop(s, pos), value)
    ELSE LET m == I64CheckedMul10(value)
             a == IF positive THEN I64CheckedAdd(m.v, DigitVal(s[pos + 1]))
                  ELSE I64CheckedSub(m.v, DigitVal(s[pos + 1]))
         IN  IF ~m.ok THEN Error
             ELSE IF ~a.ok THEN Error
             ELSE I64Loop(s, pos + 1, positive, a.v)

nom_i64(i) ==
    LET s == OptOneOf(i, {"-", "+"})
        positive == ~(s = 1 /\ i[1] = "-")
    IN  IF Len(i) = s THEN Error ELSE I64Loop(Drop(i, s), 0, positive, I64Zero)

----------------------------------------------------------------------------
(* parse_binary and the URL-safe base64 engine                             *)

\* alphabet::URL_SAFE: the symbol of 6-bit value v is UrlSafeAlphabet[v + 1].
UrlSafeAlphabet == UpperChars \o LowerChars \o DigitChars \o <<"-", "_">>

PadChar == "="

\* Bytes of the 6-bit values of a text without padding: 4 values give 3 bytes,
\* a final 3 give 2 and a final 2 give 1.
RECURSIVE MorselBytes(_)
MorselBytes(v) ==
    IF Len(v) < 2 THEN <<>>
    ELSE LET b1 == v[1] * 4 + (v[2] \div 16)
         IN  IF Len(v) = 2 THEN <<b1>>
             ELSE LET b2 == (v[2] % 16) * 16 + (v[3] \div 4)
                  IN  IF Len(v) = 3 THEN <<b1, b2>>
                      ELSE <<b1, b2, (v[3] % 4) * 64 + v[4]>> \o MorselBytes(Drop(v, 4))

\* DecodePaddingMode::RequireCanonical: symbols and padding fill whole quads.
PaddingModeOk_RequireCanonical(padding, morsels) == (padding + morsels) % 4 = 0

\* DecodePaddingMode::Indifferent: any number of padding characters, none
\* included, is accepted once they stand where padding may stand.
PaddingModeOk(padding, morsels) == TRUE

\* Engine::decode of GeneralPurpose(URL_SAFE) with DecodePaddingMode::Indifferent
\* and decode_allow_trailing_bits = false.
Base64Decode(s) ==
    LET pads     == {i \in 1..Len(s) : s[i] = PadChar}
        firstPad == IF pads = {} THEN Len(s) + 1
                    ELSE CHOOSE i \in pads : \A j \in pads : i <= j
        m        == firstPad - 1
        v        == [i \in 1..m |-> IndexOf(UrlSafeAlphabet, s[i]) - 1]
    IN  \* a symbol outside the alphabet
        IF \E i \in 1..m : s[i] \notin Range(UrlSafeAlphabet) THEN [ok |-> FALSE]
        \* padding followed by a symbol
        ELSE IF \E i \in firstPad..Len(s) : s[i] # PadChar THEN [ok |-> FALSE]
        \* padding in the first two places of a quad
        ELSE IF \E i \in pads : (i - 1) % 4 < 2 THEN [ok |-> FALSE]
        ELSE IF ~PaddingModeOk(Cardinality(pads), m) THEN [ok |-> FALSE]
        \* one symbol over a whole number of quads carries no byte
        ELSE IF m % 4 = 1 THEN [ok |-> FALSE]
        \* bits of the last symbol that belong to no byte must be zero
        ELSE IF m % 4 = 2 /\ v[m] % 16 # 0 THEN [ok |-> FALSE]
        ELSE IF m % 4 = 3 /\ v[m] % 4 # 0 THEN [ok |-> FALSE]
        ELSE [ok |-> TRUE, bytes |-> MorselBytes(v)]

BinaryTag == <<"b", "i", "n", "a", "r", "y", "'">>

parse_binary(i) ==
    IF ~TagNoCase(i, BinaryTag) THEN Error
    ELSE LET n == SpanLen(Drop(i, Len(BinaryTag)), Base64UrlSet)
             e == Len(BinaryTag) + n
         IN  IF ~CharAt(i, e + 1, Quote) THEN Error
             ELSE LET d == Base64Decode(SubSeq(i, Len(BinaryTag) + 1, e))
                  IN  IF d.ok THEN Ok(Drop(i, e + 1), d.bytes) ELSE Error

\* Engine::encode of URL_SAFE_NO_PAD, as the tests build their inputs.
RECURSIVE EncodeNoPad(_)
EncodeNoPad(b) ==
    IF b = <<>> THEN <<>>
    ELSE LET s1 == UrlSafeAlphabet[(b[1] \div 4) + 1]
         IN  IF Len(b) = 1 THEN <<s1, UrlSafeAlphabet[(b[1] % 4) * 16 + 1]>>
             ELSE LET s2 == UrlSafeAlphabet[(b[1] % 4) * 16 + (b[2] \div 16) + 1]
                  IN  IF Len(b) = 2
                      THEN <<s1, s2, UrlSafeAlphabet[(b[2] % 16) * 4 + 1]>>
                      ELSE <<s1, s2,
                             UrlSafeAlphabet[(b[2] % 16) * 4 + (b[3] \div 64) + 1],
                             UrlSafeAlphabet[(b[3] % 64) + 1]>> \o EncodeNoPad(Drop(b, 3))

\* Engine::encode of URL_SAFE: padded with '=' to a whole number of quads.
EncodePadded(b) ==
    LET e == EncodeNoPad(b)
    IN  e \o [i \in 1..((4 - (Len(e) % 4)) % 4) |-> PadChar]

----------------------------------------------------------------------------
(* parse_literal                                                           *)

\* map(parser, Literal::Variant)
MapLit(r, t) == IF IsOk(r) THEN Ok(r.rest, [t |-> t, v |-> r.val]) ELSE r

\* A keyword parser that returns its value without advancing.
ValueTag_NoAdvance(i, t, v) == IF Tag(i, t) THEN Ok(i, v) ELSE Error

\* value(v, tag(t))
ValueTag(i, t, v) == IF Tag(i, t) THEN Ok(Drop(i, Len(t)), v) ELSE Error

\* value(v, tag_no_case(t))
ValueTagNoCase(i, t, v) == IF TagNoCase(i, t) THEN Ok(Drop(i, Len(t)), v) ELSE Error

\* alt: the result of the first parser that does not end in Err::Error (a
\* success, or an Err::Failure, which alt returns at once), else Err::Error.
Alt(rs) ==
    IF \A k \in DOMAIN rs : rs[k].kind = "Error" THEN Error
    ELSE rs[CHOOSE k \in DOMAIN rs :
               /\ rs[k].kind # "Error"
               /\ \A j \in 1..(k - 1) : rs[j].kind = "Error"]

lit_null(i) == ValueTag(i, <<"n", "u", "l", "l">>, [t |-> "Null"])

lit_bool(i) ==
    Alt(<<ValueTagNoCase(i, <<"t", "r", "u", "e">>, [t |-> "Boolean", v |-> TRUE]),
          ValueTagNoCase(i, <<"f", "a", "l", "s", "e">>, [t |-> "Boolean", v |-> FALSE])>>)

lit_int(i) == MapLit(nom_i64(i), "Integer")

lit_float_numeric(i) == MapLit(parse_float(i), "Float")

lit_float_nan(i) == ValueTag(i, <<"N", "a", "N">>, [t |-> "Float", v |-> [cls |-> "nan"]])

lit_float_inf(i) ==
    ValueTag(i, <<"I", "N", "F">>, [t |-> "Float", v |-> [cls |-> "inf", neg |-> FALSE]])

lit_float_neg_inf(i) ==
    ValueTag(i, <<"-", "I", "N", "F">>, [t |-> "Float", v |-> [cls |-> "inf", neg |-> TRUE]])

lit_float(i) ==
    Alt(<<lit_float_numeric(i), lit_float_nan(i), lit_float_inf(i), lit_float_neg_inf(i)>>)

lit_string(i) == MapLit(parse_string(i), "String")

lit_guid(i) == MapLit(parse_guid(i), "GUID")

lit_binary(i) == MapLit(parse_binary(i), "Binary")

lit_date(i) == MapLit(parse_date(i), "Date")

parse_literal(i) ==
    Alt(<<lit_null(i), lit_bool(i), lit_string(i), lit_date(i),
          lit_guid(i), lit_float(i), lit_int(i), lit_binary(i)>>)

----------------------------------------------------------------------------
(* Inputs                                                                  *)

\* Longest text drawn freely from GenericAlphabet
MaxLen == 4

\* Longest string value whose quoted form is an input
MaxStrLen == 3

\* Longest byte sequence whose base64 forms are inputs
MaxBytes == 3

SeqsUpTo(S, n) == UNION {[1..k -> S] : k \in 0..n}

\* Every text of at most MaxLen characters over the characters the grammars
\* branch on.
GenericAlphabet == {"1", ".", "e", "-", "'", "x"}

GenericTexts == SeqsUpTo(GenericAlphabet, MaxLen)

KeywordTexts ==
    {<<"n", "u", "l", "l">>, <<"N", "u", "l", "l">>, <<"n", "u", "l">>,
     <<"n", "u", "l", "l", "s">>,
     <<"t", "r", "u", "e">>, <<"T", "r", "u", "e">>, <<"T", "R", "U", "E">>,
     <<"t", "r", "u", "e", "1">>, <<"t", "r", "u">>,
     <<"f", "a", "l", "s", "e">>, <<"F", "a", "l", "s", "e">>, <<"f", "a", "l", "s">>,
     <<"N", "a", "N">>, <<"n", "a", "n">>, <<"N", "a", "N", "1">>,
     <<"I", "N", "F">>, <<"i", "n", "f">>, <<"-", "I", "N", "F">>,
     <<"+", "I", "N", "F">>, <<"-", "I", "N">>, <<"-", "I", "N", "F", "x">>}

FloatTexts ==
    {<<"0", ".", "1">>, <<"-", "0", ".", "1">>, <<"1", "e", "1", "0">>,
     <<"-", "1", "e", "1", "0">>, <<"1", "e", "-", "1", "0">>,
     <<"1", "E", "-", "1", "0">>,
     <<"1", "2", "3", ".", "4", "5", "6", "e", "1", "0">>,
     <<"+", "1", ".", "5">>, <<"1", ".", "e", "5">>, <<"1", ".", "5", "e">>,
     <<"1", ".", "5", "e", "+">>, <<"1", ".", "5", "E", "x">>, <<"1", "2", "e">>,
     <<"1", "2", "E", "+", "x">>, <<"1", ".", "5", "e", "+", "2", "x">>,
     <<"0", ".", "0">>, <<"-", "0", ".", "0">>, <<"1", "0", ".", "5", "0", "e", "1">>,
     <<"1", "0", "5">>, <<"1", "e", "4", "0", "0">>, <<"1", "e", "-", "4", "0", "0">>,
     <<"1", ".", "5", " ", "e", "q">>, <<"1", ".", ".", "5">>, <<"+", ".", "5">>}

\* The decimal text of 2^63 - 1
I64MaxText == [k \in 1..Len(I64MaxMag) |-> DigitChars[I64MaxMag[k] + 1]]

\* Digit runs around the ends of the i64 range: prefixes of 2^63 - 1 with one
\* more digit, 2^63 - 1 with one digit changed, and some plain ones.
IntRuns ==
    {Append(Take(I64MaxText, k), c) : k \in 0..Len(I64MaxText), c \in {"0", "7", "8", "9"}}
    \cup {[I64MaxText EXCEPT ![k] = c] : k \in 1..Len(I64MaxText), c \in {"0", "9"}}
    \cup {<<"0", "0", "7">>, <<"1", "2", "3", "4", "5", "6", "7", "8", "9">>,
          <<"0">> \o I64MaxText, <<"0", "0">> \o Append(Take(I64MaxText, 18), "8"),
          [k \in 1..20 |-> "9"], [k \in 1..20 |-> IF k = 1 THEN "1" ELSE "0"]}

IntTexts ==
    {sg \o r \o tl : sg \in {<<>>, <<"-">>, <<"+">>}, r \in IntRuns, tl \in {<<>>}}
    \cup {sg \o I64MaxText \o tl : sg \in {<<>>, <<"-">>}, tl \in {<<"x">>, <<" ">>, <<"-">>}}

\* Every string of at most MaxStrLen characters, quotes included, in its
\* quoted form, and quoted forms with something after them.
StringChars == {Quote, "a", " "}

StringValues == SeqsUpTo(StringChars, MaxStrLen)

\* Doubling every quote of s and wrapping the result in quotes
RECURSIVE DoubleQuotes(_)
DoubleQuotes(s) ==
    IF s = <<>> THEN <<>>
    ELSE (IF Head(s) = Quote THEN <<Quote, Quote>> ELSE <<Head(s)>>) \o DoubleQuotes(Tail(s))

QuoteString(s) == <<Quote>> \o DoubleQuotes(s) \o <<Quote>>

StringTexts ==
    {QuoteString(s) \o tl : s \in StringValues, tl \in {<<>>, <<"a">>, <<" ", Quote>>}}
    \cup {<<Quote, "h", "e", "l", "l", "o", " ", "w", "o", "r", "l", "d", Quote>>,
          <<Quote, "g", Quote, Quote, "d", "a", "y", " ", "s", "i", "r", Quote>>,
          <<Quote, "g", Quote, Quote, "d", "a", "y">>}

\* Texts of the shape [-]YYYY-MM-DD, valid and not, and texts one character
\* away from that shape.
YearTexts ==
    {<<"0", "0", "0", "0">>, <<"0", "0", "0", "1">>, <<"0", "0", "0", "4">>,
     <<"0", "1", "0", "0">>, <<"0", "4", "0", "0">>, <<"1", "9", "0", "0">>,
     <<"2", "0", "0", "0">>, <<"2", "0", "2", "3">>, <<"2", "0", "2", "4">>,
     <<"9", "9", "9", "9">>}

MonthTexts == {<<a, b>> : a \in {"0"}, b \in Range(DigitChars)}
              \cup {<<a, b>> : a \in {"1"}, b \in {"0", "1", "2", "3", "9"}}

DayTexts == {<<"0", "0">>, <<"0", "1">>, <<"2", "8">>, <<"2", "9">>, <<"3", "0">>,
             <<"3", "1">>, <<"3", "2">>, <<"3", "9">>}

DateShaped ==
    {sg \o y \o <<"-">> \o m \o <<"-">> \o d :
        sg \in {<<>>, <<"-">>}, y \in YearTexts, m \in MonthTexts, d \in DayTexts}

Replace(s, k, c) == [s EXCEPT ![k] = c]

DateBases == {<<"2", "0", "2", "4", "-", "0", "2", "-", "2", "9">>,
              <<"-", "0", "0", "0", "4", "-", "1", "2", "-", "3", "1">>}

DateTexts ==
    DateShaped
    \cup {b \o tl : b \in DateBases, tl \in {<<"T">>, <<"5">>, <<"-", "0", "1">>}}
    \cup {Replace(b, k, c) : b \in DateBases, k \in 1..10, c \in {"-", "x", "2", "4"}}
    \cup {Take(b, k) : b \in DateBases, k \in 1..10}

\* GUID texts: the tests' GUID in both cases, GUIDs that start with decimal
\* digits or with digits and an 'e', and texts one character away from them.
GuidLower == <<"d", "1", "3", "e", "f", "b", "e", "c", "-", "a", "a", "2", "0", "-",
               "4", "7", "f", "4", "-", "8", "7", "5", "6", "-",
               "c", "3", "8", "8", "5", "2", "4", "8", "8", "b", "6", "e">>

GuidUpper == <<"D", "1", "3", "E", "F", "B", "E", "C", "-", "A", "A", "2", "0", "-",
               "4", "7", "F", "4", "-", "8", "7", "5", "6", "-",
               "C", "3", "8", "8", "5", "2", "4", "8", "8", "B", "6", "E">>

GuidDigits == <<"1", "2", "3", "4", "5", "6", "7", "8", "-", "1", "2", "3", "4", "-",
                "1", "2", "3", "4", "-", "1", "2", "3", "4", "-",
                "1", "2", "3", "4", "5", "6", "7", "8", "9", "0", "1", "2">>

GuidBases ==
    {GuidLower, GuidUpper, GuidDigits,
     Replace(GuidDigits, 2, "e"), Replace(GuidDigits, 4, "E"),
     Replace(Replace(GuidDigits, 2, "e"), 3, "a"),
     Replace(Replace(GuidLower, 1, "f"), 2, "a")}

GuidTexts ==
    {b \o tl : b \in GuidBases, tl \in {<<>>, <<"0">>, <<"-">>, <<" ">>}}
    \cup {Replace(b, k, c) : b \in {GuidLower, GuidDigits, Replace(GuidDigits, 2, "e")},
                             k \in 1..36, c \in {"-", "g", "A"}}
    \cup {Take(b, k) \o Drop(b, k + 1) : b \in {GuidUpper, GuidDigits}, k \in 1..36}
    \cup {Take(b, k) : b \in {GuidLower}, k \in 1..35}

\* binary'...' texts: both base64 forms of every byte sequence of at most
\* MaxBytes bytes over ByteSamples and of the tests' sample, and every short
\* body over a few base64 characters, decodable or not.
ByteSamples == {0, 68, 255}

ByteValues == SeqsUpTo(ByteSamples, MaxBytes)

\* b"Definitely not a virus"
TestBytes == <<68, 101, 102, 105, 110, 105, 116, 101, 108, 121, 32, 110, 111, 116,
               32, 97, 32, 118, 105, 114, 117, 115>>

BinaryUpper == <<"B", "I", "N", "a", "r", "y", "'">>

BinaryTexts ==
    {BinaryTag \o e \o <<Quote>> :
        e \in {EncodePadded(b) : b \in ByteValues \cup {TestBytes}}
              \cup {EncodeNoPad(b) : b \in ByteValues \cup {TestBytes}}}
    \cup {BinaryTag \o e \o <<Quote>> : e \in SeqsUpTo({"A", "Q", "_", PadChar}, MaxLen)}
    \cup {tg \o e \o tl : tg \in {BinaryUpper, Take(BinaryTag, 6), BinaryTag},
                          e \in {<<"R", "A">>, <<"R", "A", PadChar, PadChar>>, <<"R", "+">>},
                          tl \in {<<>>, <<Quote>>, <<Quote, "x">>}}

Inputs ==
    GenericTexts \cup KeywordTexts \cup FloatTexts \cup IntTexts \cup StringTexts
    \cup DateTexts \cup GuidTexts \cup BinaryTexts

----------------------------------------------------------------------------
(* The calls: an input is chosen, then one of the public parsers is        *)
(* applied to it.  A parser borrows its input and returns; it keeps no     *)
(* state.                                                                  *)

Pending == [kind |-> "Pending"]

Init ==
    /\ inp \in Inputs
    /\ op = "none"
    /\ res = Pending

Call_parse_literal ==
    /\ op = "none"
    /\ op' = "parse_literal"
    /\ res' = parse_literal(inp)
    /\ UNCHANGED inp

Call_parse_float ==
    /\ op = "none"
    /\ op' = "parse_float"
    /\ res' = parse_float(inp)
    /\ UNCHANGED inp

Call_parse_string ==
    /\ op = "none"
    /\ op' = "parse_string"
    /\ res' = parse_string(inp)
    /\ UNCHANGED inp

Call_parse_guid ==
    /\ op = "none"
    /\ op' = "parse_guid"
    /\ res' = parse_guid(inp)
    /\ UNCHANGED inp

Call_parse_date ==
    /\ op = "none"
    /\ op' = "parse_date"
    /\ res' = parse_date(inp)
    /\ UNCHANGED inp

Call_parse_binary ==
    /\ op = "none"
    /\ op' = "parse_binary"
    /\ res' = parse_binary(inp)
    /\ UNCHANGED inp

Next ==
    \/ Call_parse_literal
    \/ Call_parse_float
    \/ Call_parse_string
    \/ Call_parse_guid
    \/ Call_parse_date
    \/ Call_parse_binary

Spec == Init /\ [][Next]_vars

----------------------------------------------------------------------------
(* Properties                                                              *)

Called(name) == op = name

\* Position of the k-th element of rs that is Ok, for k the least such.
FirstOk(rs) == CHOOSE k \in DOMAIN rs : IsOk(rs[k]) /\ \A j \in 1..(k - 1) : ~IsOk(rs[j])

\* The candidates of parse_literal in their order, the float alternatives
\* spelled out.
Candidates(i) ==
    <<lit_null(i), lit_bool(i), lit_string(i), lit_date(i), lit_guid(i),
      lit_float_numeric(i), lit_float_nan(i), lit_float_inf(i), lit_float_neg_inf(i),
      lit_int(i), lit_binary(i)>>

\* C1: parse_literal returns exactly the result of the first candidate, in the
\* order null, boolean, string, date, GUID, float (numeric, NaN, INF, -INF),
\* integer, binary, that succeeds; earlier failures only fall through, so it
\* fails if and only if every candidate fails.
C1_FirstSuccessWins ==
    Called("parse_literal") =>
        LET c == Candidates(inp)
        IN  IF \E k \in DOMAIN c : IsOk(c[k]) THEN res = c[FirstOk(c)] ELSE ~IsOk(res)

\* Canonical decimal text of an i64: "0", or an optional '-' and digits
\* without a leading zero, the value within -2^63 .. 2^63 - 1.
IsCanonicalI64Text(t) ==
    LET s == IF t # <<>> /\ t[1] = "-" THEN 1 ELSE 0
        r == Drop(t, s)
    IN  /\ r # <<>>
        /\ \A k \in 1..Len(r) : r[k] \in Range(DigitChars)
        /\ (r[1] = "0" => Len(r) = 1 /\ s = 0)
        /\ MagLeq(DigitsOf(r), IF s = 1 THEN I64MinMag ELSE I64MaxMag)

\* The i64 a canonical text denotes.
I64OfCanonicalText(t) ==
    IF t = <<"0">> THEN [neg |-> FALSE, mag |-> <<>>]
    ELSE IF t[1] = "-" THEN [neg |-> TRUE, mag |-> DigitsOf(Tail(t))]
    ELSE [neg |-> FALSE, mag |-> DigitsOf(t)]

\* C2: parse_literal of the canonical decimal text of any i64 n, the minimum
\* and maximum included, is Integer(n) with nothing left over.
C2_IntegerRoundTrip ==
    (Called("parse_literal") /\ IsCanonicalI64Text(inp)) =>
        res = Ok(<<>>, [t |-> "Integer", v |-> I64OfCanonicalText(inp)])

I64MinText == <<"-">> \o Append(Take(I64MaxText, Len(I64MaxText) - 1), "8")

C2_Witness ==
    /\ Called("parse_literal")
    /\ inp = I64MinText
    /\ IsOk(res)
    /\ res.val.v.mag = I64MinMag

\* C3: for every string s, parse_string and parse_literal of s with its quotes
\* doubled, wrapped in quotes, give exactly s and leave nothing over.
C3_StringRoundTrip ==
    (Called("parse_string") \/ Called("parse_literal")) =>
        \A s \in StringValues :
            inp = QuoteString(s) =>
                /\ Called("parse_string") => res = Ok(<<>>, s)
                /\ Called("parse_literal") => res = Ok(<<>>, [t |-> "String", v |-> s])

C3_Witness ==
    /\ Called("parse_string")
    /\ inp = QuoteString(<<Quote, "a", Quote>>)
    /\ IsOk(res)
    /\ res.val = <<Quote, "a", Quote>>

\* The date grammar alone: optional '-', four digits, '-', two digits the
\* first 0 or 1, '-', two digits the first 0 to 3.
SignLen(t) == IF t # <<>> /\ t[1] = "-" THEN 1 ELSE 0

IsDateShaped(t) ==
    LET s == SignLen(t)
    IN  /\ Len(t) >= s + 10
        /\ \A k \in {1, 2, 3, 4, 7, 10} : t[s + k] \in Range(DigitChars)
        /\ t[s + 5] = "-"
        /\ t[s + 8] = "-"
        /\ t[s + 6] \in {"0", "1"}
        /\ t[s + 9] \in {"0", "1", "2", "3"}

TwoDigits(a, b) == 10 * DigitVal(a) + DigitVal(b)

TextYear(t) ==
    LET s == SignLen(t)
        y == 100 * TwoDigits(t[s + 1], t[s + 2]) + TwoDigits(t[s + 3], t[s + 4])
    IN  IF s = 1 THEN 0 - y ELSE y

TextMonth(t) == TwoDigits(t[SignLen(t) + 6], t[SignLen(t) + 7])

TextDay(t) == TwoDigits(t[SignLen(t) + 9], t[SignLen(t) + 10])

\* The proleptic Gregorian calendar
GregorianLeap(y) == (y % 4 = 0 /\ y % 100 # 0) \/ y % 400 = 0

GregorianDays(y, m) ==
    <<31, IF GregorianLeap(y) THEN 29 ELSE 28, 31, 30, 31, 30, 31, 31, 30, 31, 30, 31>>[m]

RECURSIVE GregorianOrdinal(_, _, _)
GregorianOrdinal(y, m, d) ==
    IF m = 1 THEN d ELSE GregorianDays(y, m - 1) + GregorianOrdinal(y, m - 1, d)

IsCalendarDate(t) ==
    /\ IsDateShaped(t)
    /\ TextMonth(t) \in 1..12
    /\ TextDay(t) >= 1
    /\ TextDay(t) <= GregorianDays(TextYear(t), TextMonth(t))

\* C4 as claimed: parse_literal fails on every input that starts with a text
\* of the date grammar naming an impossible calendar date.
C4_ImpossibleDateRejectedByLiteral ==
    (Called("parse_literal") /\ IsDateShaped(inp) /\ ~IsCalendarDate(inp)) => ~IsOk(res)

\* C4 amended: on such an input parse_date fails, and parse_literal returns no
\* Date: it falls through to the integer candidate and returns the Integer of
\* the signed year digits, the rest of the input from the hyphen before the
\* month left unconsumed.
C4_ImpossibleDateFallsThrough ==
    (IsDateShaped(inp) /\ ~IsCalendarDate(inp)) =>
        /\ Called("parse_date") => res = Error
        /\ Called("parse_literal") =>
              LET mag == StripLeadingZeros(DigitsOf(SubSeq(inp, SignLen(inp) + 1,
                                                           SignLen(inp) + 4)))
              IN  res = Ok(Drop(inp, SignLen(inp) + 4),
                           [t |-> "Integer",
                            v |-> [neg |-> SignLen(inp) = 1 /\ mag # <<>>, mag |-> mag]])

C4_Witness ==
    /\ Called("parse_literal")
    /\ inp = <<"2", "0", "2", "3", "-", "0", "2", "-", "3", "0">>
    /\ IsOk(res)
    /\ res.val.t = "Integer"
    /\ res.rest = <<"-", "0", "2", "-", "3", "0">>

\* C5: parse_date succeeds exactly on inputs that start with [-]YYYY-MM-DD with
\* MM in 01..12 and DD within that month of that proleptic Gregorian year; the
\* value is then that date, the year signed, and the remainder is the input
\* after those 10 or 11 characters.
C5_DateExactlyCalendar ==
    Called("parse_date") =>
        IF IsCalendarDate(inp)
        THEN res = Ok(Drop(inp, SignLen(inp) + 10),
                      [year |-> TextYear(inp),
                       ordinal |-> GregorianOrdinal(TextYear(inp), TextMonth(inp),
                                                    TextDay(inp))])
        ELSE ~IsOk(res)

C5_Witness ==
    /\ Called("parse_date")
    /\ inp = <<"-", "0", "0", "0", "4", "-", "0", "2", "-", "2", "9">>
    /\ IsOk(res)
    /\ res.val = [year |-> 0 - 4, ordinal |-> 60]
    /\ res.rest = <<>>


\* The float grammar alone: sign? digits ('.' digits?)? (('e'|'E') sign? digits)?
\* with a fraction or an exponent present; t is a whole float literal.
IsFloatLiteral(t) ==
    \E s \in 0..1 :
        /\ s = 1 => (t # <<>> /\ t[1] \in {"+", "-"})
        /\ \E d \in 1..(Len(t) - s) :
              /\ \A k \in (s + 1)..(s + d) : t[k] \in Range(DigitChars)
              /\ \E f \in 0..(Len(t) - s - d) :
                    LET x  == Len(t) - s - d - f
                        xs == IF x > 1 /\ t[s + d + f + 2] \in {"+", "-"} THEN 1 ELSE 0
                    IN  /\ f > 0 \/ x > 0
                        /\ f > 0 => /\ t[s + d + 1] = "."
                                    /\ \A k \in (s + d + 2)..(s + d + f) :
                                          t[k] \in Range(DigitChars)
                        /\ x > 0 => /\ t[s + d + f + 1] \in {"e", "E"}
                                    /\ x - 1 - xs >= 1
                                    /\ \A k \in (s + d + f + 2 + xs)..Len(t) :
                                          t[k] \in Range(DigitChars)

\* Length of the longest prefix of t that is a float literal, 0 when none is.
LongestFloatPrefix(t) ==
    LET ks == {k \in 1..Len(t) : IsFloatLiteral(Take(t, k))}
    IN  IF ks = {} THEN 0 ELSE CHOOSE k \in ks : \A j \in ks : j <= k

\* C6: parse_float matches the longest prefix that is a float literal and
\* returns the rest; it fails, recoverably, exactly when there is none.  An
\* 'e' or 'E' without an optionally signed digit run after it is not part of
\* the literal.
C6_FloatLongestPrefix ==
    Called("parse_float") =>
        LET n == LongestFloatPrefix(inp)
        IN  IF n > 0 THEN IsOk(res) /\ res.rest = Drop(inp, n) ELSE res = Error

\* The GUID layout alone: 36 characters, hyphens at 9, 14, 19 and 24, hex
\* digits of either case elsewhere.
HexChars == {"0", "1", "2", "3", "4", "5", "6", "7", "8", "9",
             "a", "b", "c", "d", "e", "f", "A", "B", "C", "D", "E", "F"}

StartsWithGuid(t) ==
    /\ Len(t) >= 36
    /\ \A k \in 1..36 : IF k \in {9, 14, 19, 24} THEN t[k] = "-" ELSE t[k] \in HexChars

\* C7: parse_guid succeeds exactly on inputs that start with hex groups of
\* lengths 8, 4, 4, 4, 12 joined by hyphens; the value is those 36 characters
\* unchanged and the remainder what follows; parse_literal of such a text alone
\* is the GUID of that text, also when it starts with digits or digits and 'e'.
C7_GuidExactLayout ==
    /\ Called("parse_guid") =>
          IF StartsWithGuid(inp) THEN res = Ok(Drop(inp, 36), Take(inp, 36))
          ELSE ~IsOk(res)
    /\ (Called("parse_literal") /\ StartsWithGuid(inp) /\ Len(inp) = 36) =>
          res = Ok(<<>>, [t |-> "GUID", v |-> inp])

C7_Witness ==
    /\ Called("parse_literal")
    /\ inp = Replace(GuidDigits, 2, "e")
    /\ IsOk(res)
    /\ res.val = [t |-> "GUID", v |-> inp]

\* C8: for every byte sequence b, parse_literal of binary'E' is Binary(b) with
\* nothing left over, for E the padded and for E the unpadded URL-safe base64
\* of b alike.
C8_BinaryPaddingIndifferent ==
    Called("parse_literal") =>
        \A b \in ByteValues \cup {TestBytes} :
            (\/ inp = BinaryTag \o EncodePadded(b) \o <<Quote>>
             \/ inp = BinaryTag \o EncodeNoPad(b) \o <<Quote>>)
            => res = Ok(<<>>, [t |-> "Binary", v |-> b])

C8_Witness ==
    /\ Called("parse_literal")
    /\ inp = BinaryTag \o EncodeNoPad(<<68, 255>>) \o <<Quote>>
    /\ EncodeNoPad(<<68, 255>>) # EncodePadded(<<68, 255>>)
    /\ IsOk(res)
    /\ res.val = [t |-> "Binary", v |-> <<68, 255>>]

\* A digit run, optionally signed, nothing after it, whose value is outside
\* -2^63 .. 2^63 - 1.
IsOverflowingDigitRun(t) ==
    LET s == IF t # <<>> /\ t[1] \in {"+", "-"} THEN 1 ELSE 0
        r == Drop(t, s)
    IN  /\ r # <<>>
        /\ \A k \in 1..Len(r) : r[k] \in Range(DigitChars)
        /\ ~MagLeq(StripLeadingZeros(DigitsOf(r)),
                   IF s = 1 /\ t[1] = "-" THEN I64MinMag ELSE I64MaxMag)

\* C9: parse_literal fails on every optionally signed pure digit run whose
\* value is outside the i64 range: no Date, no truncated or wrapped Integer,
\* no literal of any kind for a prefix of it.
C9_OverflowingRunFails ==
    (Called("parse_literal") /\ IsOverflowingDigitRun(inp)) => res = Error

C9_Witness ==
    /\ Called("parse_literal")
    /\ inp = Append(Take(I64MaxText, Len(I64MaxText) - 1), "8")
    /\ res = Error

\* C10: when parse_literal succeeds the remainder is a proper suffix of the
\* input, so input = consumed prefix \o remainder with the prefix not empty;
\* when it fails the result carries no remainder and the input is as it was.
C10_ProgressOnSuccess ==
    Called("parse_literal") =>
        IF IsOk(res)
        THEN \E k \in 1..Len(inp) :
                /\ res.rest = Drop(inp, k)
                /\ inp = Take(inp, k) \o res.rest
        ELSE res \in {Error, Failure}

C10_Witness ==
    /\ Called("parse_literal")
    /\ inp = <<"1", ".", "x">>
    /\ IsOk(res)
    /\ res.rest = <<"x">>

============================================================================
